---- MODULE Spec2Model ----
(***************************************************************************)
(* Rollizr: the agent execution and workflow orchestration layer.          *)
(*                                                                         *)
(* AgentOrchestrator (workflows/orchestrator.js) composes BaseAgent        *)
(* runners (agents/base-agent.js) over the generation client               *)
(* (utils/claude-client.js).  Every async function is modelled by one      *)
(* action per run-to-completion segment: the code from a call (or from    *)
(* the resumption of an await) up to the next await that really suspends.  *)
(* The external generation service answers an in-flight request at any     *)
(* later time, in any order, with any of the replies of sendMessage.     *)
(***************************************************************************)
EXTENDS Integers, Sequences, FiniteSets, TLC

VARIABLES
    workflowHistory,  \* AgentOrchestrator.workflowHistory
    calls,            \* the executeAgent promises created so far (one per call)
    pc,               \* position of the caller's current orchestrator call
    frame,            \* local variables of that call
    ret,              \* how the last finished call completed
    nOps,             \* number of orchestrator calls started
    nCalls,           \* number of executeAgent calls those may make
    conversationHistory, \* BaseAgent.conversationHistory of the runner under test
    runs,             \* the execute / executeWithHistory calls made on that runner
    text,             \* a response text handed to the extractor
    extracted         \* what the extractor made of it

orchestratorVars == <<workflowHistory, calls, pc, frame, ret, nOps, nCalls>>
runnerVars == <<conversationHistory, runs>>
extractorVars == <<text, extracted>>

vars == <<orchestratorVars, runnerVars, extractorVars>>

----------------------------------------------------------------------------
(* Bounds of the model *)

\* number of orchestrator calls the caller makes
MaxOps == 1

\* number of executeAgent calls all of them together may make
MaxCalls == 4

\* longest agent list handed to executePipeline / executeParallel
MaxSeq == 2

----------------------------------------------------------------------------
(* Agent table: config/agents.js, instantiated by agents/index.js *)

AGENT_CONFIGS ==
    [scout      |-> [name |-> "Scout Agent",      role |-> "target_discovery"],
     resolver   |-> [name |-> "Resolver Agent",   role |-> "entity_resolution"],
     profiler   |-> [name |-> "Profiler Agent",   role |-> "company_enrichment"],
     valuation  |-> [name |-> "Valuation Agent",  role |-> "business_valuation"],
     compliance |-> [name |-> "Compliance Agent", role |-> "regulatory_compliance"],
     outreach   |-> [name |-> "Outreach Agent",   role |-> "communication"],
     diligence  |-> [name |-> "Diligence Agent",  role |-> "due_diligence"],
     integrator |-> [name |-> "Integrator Agent", role |-> "post_acquisition"]]

\* agents/index.js: one BaseAgent per entry of AGENT_CONFIGS, under the same key
agents == [k \in DOMAIN AGENT_CONFIGS |-> AGENT_CONFIGS[k]]

\* an identifier that is no key of the table
UnknownKey == "bogus"

\* the identifiers a caller passes to the generic primitives
CallerKeys == {"resolver", "outreach", UnknownKey}

\* the payloads a caller passes
CallerInputs == {[text |-> "x"]}
Theses == {[revenueMin |-> 2, revenueMax |-> 10]}
Companies == {[company_id |-> "c1"]}

\* Date.now() - startTime, as observed by BaseAgent.execute (milliseconds);
\* nothing in the orchestrator branches on it
ExecTimes == {1}

\* JavaScript's undefined / an empty object literal {}
Undefined == [undefined |-> TRUE]
EmptyObject == <<>>

Has(obj, field) == field \in DOMAIN obj

----------------------------------------------------------------------------
(* The generation client and the agent runner *)

\* texts the service may answer with: a JSON document (given by its value)
\* or prose that holds no JSON
JsonDocs(agentKey) ==
    CASE agentKey = "scout" ->
           {[score |-> 49, risks |-> <<"r1">>],
            [score |-> 50, risks |-> <<"r1">>],
            [score |-> 87, risks |-> <<"r1">>]}
      [] agentKey = "compliance" ->
           {[approved |-> TRUE,  violations |-> <<>>],
            [approved |-> FALSE, violations |-> <<[details |-> "v1"]>>]}
      [] agentKey = "valuation" ->
           {[estimated_value_range |-> "1M-2M"]}
      [] OTHER -> {[data |-> agentKey]}

Contents(agentKey) ==
    {[json |-> TRUE, value |-> v] : v \in JsonDocs(agentKey)}
        \cup {[json |-> FALSE, text |-> <<"w">>]}

\* ClaudeClient.sendMessage: the value its promise resolves to
sendMessage(agentKey) ==
    {[success |-> TRUE, content |-> c] : c \in Contents(agentKey)}
        \cup {[success |-> FALSE, error |-> "api error"]}

\* JavaScript's null
Null == [null |-> TRUE]

\* A response text given token by token (white space left out: JSON.parse
\* skips it and the \s* of the fence pattern takes it):
\*   "{" "}"  braces         "m"  a member "key": value of an object
\*   "7"      a number       "0"  the number zero
\*   "w"      a word of prose
\*   "F"      the fence ```json        "E"  the fence ```
Tokens == {"{", "}", "m", "7", "0", "w", "F", "E"}

\* longest text handed to the extractor
MaxText == 6

RECURSIVE IsObject(_), IsMembers(_)

\* t is an object: braces around members
IsObject(t) ==
    /\ Len(t) >= 2
    /\ t[1] = "{"
    /\ t[Len(t)] = "}"
    /\ IsMembers(SubSeq(t, 2, Len(t) - 1))

\* u is a list of members, each a plain one or one whose value is an object
IsMembers(u) ==
    \/ u = <<>>
    \/ /\ u # <<>>
       /\ u[1] = "m"
       /\ IsMembers(Tail(u))
    \/ /\ u # <<>>
       /\ u[1] = "{"
       /\ \E k \in 2..Len(u) :
             /\ IsObject(SubSeq(u, 1, k))
             /\ IsMembers(SubSeq(u, k + 1, Len(u)))

\* t is a JSON document in its entirety
IsJson(t) == t \in {<<"7">>, <<"0">>} \/ IsObject(t)

RECURSIVE ObjectValue(_), MembersValue(_)

ObjectValue(t) == [members |-> MembersValue(SubSeq(t, 2, Len(t) - 1))]

MembersValue(u) ==
    IF u = <<>> THEN <<>>
    ELSE IF u[1] = "m" THEN <<[member |-> "m"]>> \o MembersValue(Tail(u))
    ELSE LET k == CHOOSE k \in 2..Len(u) :
                     /\ IsObject(SubSeq(u, 1, k))
                     /\ IsMembers(SubSeq(u, k + 1, Len(u)))
         IN  <<ObjectValue(SubSeq(u, 1, k))>>
                 \o MembersValue(SubSeq(u, k + 1, Len(u)))

RECURSIVE SerializeObject(_), SerializeMembers(_)

\* JSON.stringify of an object value, token by token
SerializeObject(v) == <<"{">> \o SerializeMembers(v.members) \o <<"}">>

SerializeMembers(ms) ==
    IF ms = <<>> THEN <<>>
    ELSE (IF Has(ms[1], "members") THEN SerializeObject(ms[1]) ELSE <<"m">>)
             \o SerializeMembers(Tail(ms))

\* the numbers 7 and 0 as JavaScript values
Seven == [number |-> 7]
Zero == [number |-> 0]

\* JSON.parse(t) for a text t that is a JSON document
JsonValue(t) ==
    IF t = <<"7">> THEN Seven
    ELSE IF t = <<"0">> THEN Zero
    ELSE ObjectValue(t)

\* the positions in t of the tokens in the set which
Positions(t, which) == {i \in 1..Len(t) : t[i] \in which}

Min(S) == CHOOSE i \in S : \A j \in S : i <= j
Max(S) == CHOOSE i \in S : \A j \in S : i >= j

\* (a fence pattern whose group runs on to the last ``` of the text)
jsonMatchGreedy(t) ==
    LET opens  == Positions(t, {"F"})
        closes == IF opens = {} THEN {}
                  ELSE {j \in Positions(t, {"F", "E"}) : j > Min(opens)}
    IN  IF closes = {} THEN [matched |-> FALSE]
        ELSE [matched |-> TRUE,
              group   |-> SubSeq(t, Min(opens) + 1, Max(closes) - 1)]

\* content.match(/```json\s*([\s\S]*?)\s*```/): the capture group, from the
\* first ```json to the first ``` after it (the backticks of a further
\* ```json close it as well); no match is <<FALSE>>
jsonMatch(t) ==
    LET opens  == Positions(t, {"F"})
        closes == IF opens = {} THEN {}
                  ELSE {j \in Positions(t, {"F", "E"}) :
                           j > Min(opens)}
    IN  IF closes = {} THEN [matched |-> FALSE]
        ELSE [matched |-> TRUE,
              group   |-> SubSeq(t, Min(opens) + 1, Min(closes) - 1)]

\* (a brace pattern that stops at the first closing brace)
objectMatchLazy(t) ==
    LET opens  == Positions(t, {"{"})
        closes == IF opens = {} THEN {}
                  ELSE {j \in Positions(t, {"}"}) : j > Min(opens)}
    IN  IF closes = {} THEN [matched |-> FALSE]
        ELSE [matched |-> TRUE, group |-> SubSeq(t, Min(opens), Min(closes))]

\* content.match(/\{[\s\S]*\}/): from the first "{" to the last "}"
objectMatch(t) ==
    LET opens  == Positions(t, {"{"})
        closes == IF opens = {} THEN {}
                  ELSE {j \in Positions(t, {"}"}) : j > Min(opens)}
    IN  IF closes = {} THEN [matched |-> FALSE]
        ELSE [matched |-> TRUE, group |-> SubSeq(t, Min(opens), Max(closes))]

\* ClaudeClient.parseJSON on a text given by its tokens
parseJSONText(t) ==
    IF IsJson(t) THEN JsonValue(t)
    ELSE IF jsonMatch(t).matched
    THEN IF IsJson(jsonMatch(t).group) THEN JsonValue(jsonMatch(t).group)
         ELSE Null
    ELSE IF objectMatch(t).matched
    THEN IF IsJson(objectMatch(t).group) THEN JsonValue(objectMatch(t).group)
         ELSE Null
    ELSE Null

\* ClaudeClient.parseJSON: the parsed document, or null. A content is
\* either [json |-> TRUE, value |-> v], the text JSON.stringify(v) of a
\* JSON object v, which JSON.parse turns back into v at once, or
\* [json |-> FALSE, text |-> t], a text given by its tokens.
parseJSON(content) ==
    IF content.json THEN content.value ELSE parseJSONText(content.text)

\* (a truth test that takes the empty object for false as well)
TruthyNonEmpty(v) == v \notin {Null, Zero, [members |-> <<>>]}

\* the values JavaScript takes for true in a condition, among those
\* parseJSON returns
Truthy(v) == v \notin {Null, Zero}

\* (an extractor without the fallback wrapper)
parseResponseNoFallback(content) == parseJSON(content)

\* BaseAgent._parseResponse
parseResponse(content) ==
    LET parsed == parseJSON(content)
    IN  IF Truthy(parsed) THEN parsed
        ELSE [rawResponse |-> content, parsed |-> FALSE]

\* (a catch block that also fills in an output)
executeErrorWithOutput(agentKey, response, executionTime) ==
    [success  |-> response.success,
     agent    |-> agents[agentKey].name,
     role     |-> agents[agentKey].role,
     output   |-> IF response.success THEN parseResponse(response.content)
                  ELSE Null,
     error    |-> IF response.success THEN Null ELSE response.error,
     metadata |-> [executionTime |-> executionTime]]

\* BaseAgent.execute, from the resolution of sendMessage to its return value
execute(agentKey, response, executionTime) ==
    IF response.success
    THEN [success  |-> TRUE,
          agent    |-> agents[agentKey].name,
          role     |-> agents[agentKey].role,
          output   |-> parseResponse(response.content),
          metadata |-> [executionTime |-> executionTime]]
    ELSE [success  |-> FALSE,
          agent    |-> agents[agentKey].name,
          role     |-> agents[agentKey].role,
          error    |-> response.error,
          metadata |-> [executionTime |-> executionTime]]

----------------------------------------------------------------------------
(* AgentOrchestrator.executeAgent *)

NotFoundError(agentKey) == [error |-> "not found", agentKey |-> agentKey]

\* (an executeAgent that issues the generation request before it looks the
\* key up)
executeAgentInRequestFirst(opId, agentKey, input, context) ==
    IF agentKey \notin DOMAIN agents
    THEN [op |-> opId, agentKey |-> agentKey, input |-> input,
          context |-> context, state |-> "rejected",
          result |-> NotFoundError(agentKey), logAt |-> 0, requests |-> 1]
    ELSE [op |-> opId, agentKey |-> agentKey, input |-> input,
          context |-> context, state |-> "inflight", result |-> Undefined,
          logAt |-> 0, requests |-> 1]

\* executeAgent up to its await: the promise it hands back.  An unknown key
\* throws inside the async function, so the promise is already rejected and
\* agent.execute was never called; otherwise agent.execute has built the
\* message and issued the generation request.  (op: the orchestrator call
\* that made this one; logAt: where its history entry went, 0 before that.)
executeAgentIn(opId, agentKey, input, context) ==
    IF agentKey \notin DOMAIN agents
    THEN [op |-> opId, agentKey |-> agentKey, input |-> input,
          context |-> context, state |-> "rejected",
          result |-> NotFoundError(agentKey), logAt |-> 0, requests |-> 0]
    ELSE [op |-> opId, agentKey |-> agentKey, input |-> input,
          context |-> context, state |-> "inflight", result |-> Undefined,
          logAt |-> 0, requests |-> 1]

executeAgent(agentKey, input, context) ==
    executeAgentIn(IF pc \in {"idle", "done"} THEN nOps + 1 ELSE nOps,
                   agentKey, input, context)

\* (an entry that records every execution as a success)
HistoryEntryAlwaysSuccess(agentKey, result) ==
    [agent         |-> agentKey,
     success       |-> TRUE,
     executionTime |-> result.metadata.executionTime]

\* the entry executeAgent pushes after its await
HistoryEntry(agentKey, result) ==
    [agent         |-> agentKey,
     success       |-> result.success,
     executionTime |-> result.metadata.executionTime]

\* the promises of earlier calls that are still waiting for the service
Dangling == SelectSeq(calls, LAMBDA c : c.state = "inflight")

\* the caller starts its next call once the previous one has completed;
\* need is the largest number of executeAgent calls the new one can make
CanStart(need) ==
    /\ pc \in {"idle", "done"}
    /\ nOps < MaxOps
    /\ nCalls + need <= MaxCalls

Returned(opName, value) == [op |-> opName, outcome |-> "returned", value |-> value]
Thrown(opName, error) == [op |-> opName, outcome |-> "thrown", value |-> error]

\* (a push that writes over the last entry instead of extending the log)
pushOverwrite(history, entry) ==
    IF history = <<>> THEN <<entry>>
    ELSE [history EXCEPT ![Len(history)] = entry]

\* (a push that puts the new entry in front of the older ones)
pushFront(history, entry) == <<entry>> \o history

\* this.workflowHistory.push(entry)
push(history, entry) == Append(history, entry)

\* (a runner that sends its request a second time when the first one failed)
AgentSettleRetry(i) ==
    /\ i \in 1..Len(calls)
    /\ calls[i].state = "inflight"
    /\ \E response \in sendMessage(calls[i].agentKey), t \in ExecTimes :
          IF ~response.success /\ calls[i].requests < 2
          THEN /\ calls' = [calls EXCEPT ![i].requests = 2]
               /\ UNCHANGED workflowHistory
          ELSE LET result == execute(calls[i].agentKey, response, t)
               IN  /\ workflowHistory' =
                         push(workflowHistory, HistoryEntry(calls[i].agentKey, result))
                   /\ calls' = [calls EXCEPT ![i].state = "fulfilled",
                                             ![i].result = result,
                                             ![i].logAt = Len(workflowHistory')]
    /\ UNCHANGED <<pc, frame, ret, nOps, nCalls>>
    /\ UNCHANGED <<runnerVars, extractorVars>>

\* The service answers request i: BaseAgent.execute returns and executeAgent
\* resumes, pushes the history entry and resolves its promise. The request
\* was sent when the call was made (requests = 1) and is not sent again.
AgentSettle(i) ==
    /\ i \in 1..Len(calls)
    /\ calls[i].state = "inflight"
    /\ \E response \in sendMessage(calls[i].agentKey), t \in ExecTimes :
          LET result == execute(calls[i].agentKey, response, t)
          IN  /\ workflowHistory' =
                    push(workflowHistory, HistoryEntry(calls[i].agentKey, result))
              /\ calls' = [calls EXCEPT ![i].state = "fulfilled",
                                        ![i].result = result,
                                        ![i].logAt = Len(workflowHistory')]
    /\ UNCHANGED <<pc, frame, ret, nOps, nCalls>>
    /\ UNCHANGED <<runnerVars, extractorVars>>

\* the caller calls orchestrator.executeAgent(agentKey, input)
CallExecuteAgent ==
    /\ CanStart(1)
    /\ nCalls' = nCalls + 1
    /\ \E agentKey \in CallerKeys, input \in CallerInputs :
          LET p == executeAgent(agentKey, input, EmptyObject)
          IN  /\ calls' = Append(Dangling, p)
              /\ frame' = [wait |-> Len(Dangling) + 1]
              /\ IF p.state = "rejected"
                 THEN /\ pc' = "done"
                      /\ ret' = Thrown("executeAgent", p.result)
                 ELSE /\ pc' = "executeAgent"
                      /\ ret' = Undefined
    /\ nOps' = nOps + 1
    /\ UNCHANGED workflowHistory
    /\ UNCHANGED <<runnerVars, extractorVars>>

\* the caller's await on that promise resumes
ReturnExecuteAgent ==
    /\ pc = "executeAgent"
    /\ calls[frame.wait].state = "fulfilled"
    /\ pc' = "done"
    /\ ret' = Returned("executeAgent", calls[frame.wait].result)
    /\ UNCHANGED <<workflowHistory, calls, frame, nOps, nCalls>>
    /\ UNCHANGED <<runnerVars, extractorVars>>

----------------------------------------------------------------------------
(* AgentOrchestrator.executePipeline *)

\* reading a property that may be absent yields undefined
Get(obj, field) == IF Has(obj, field) THEN obj[field] ELSE Undefined

\* obj[key] = value
SetKey(obj, key, value) ==
    [k \in DOMAIN obj \cup {key} |-> IF k = key THEN value ELSE obj[k]]

TypeError(what) == [error |-> "TypeError", reading |-> what]

\* the agent lists a caller may pass, the empty list included
KeyLists == UNION {[1..n -> CallerKeys] : n \in 0..MaxSeq}

\* (a loop that issues step k without waiting for step k - 1: it starts the
\* steps k and k + 1 together)
PipelineLoopEager(cs, agentSequence, k, results, currentInput, context) ==
    LET rest == [j \in 1..(IF k + 1 <= Len(agentSequence) THEN 2
                            ELSE IF k <= Len(agentSequence) THEN 1 ELSE 0) |->
                    executeAgent(agentSequence[k + j - 1], currentInput, context)]
    IN  /\ calls' = cs \o rest
        /\ frame' = [agentSequence |-> agentSequence,
                     k             |-> k,
                     results       |-> results,
                     currentInput  |-> currentInput,
                     context       |-> context,
                     initialInput  |-> IF k = 1 THEN currentInput
                                       ELSE frame.initialInput,
                     wait          |-> IF rest = <<>> THEN 0 ELSE Len(cs) + 1]
        /\ IF rest = <<>> \/ rest[1].state = "rejected"
           THEN /\ pc' = "done"
                /\ ret' = Thrown("executePipeline", TypeError("eager"))
           ELSE /\ pc' = "executePipeline"
                /\ ret' = Undefined

\* The for loop from the head of iteration k up to the await of that
\* iteration, or, past the last iteration, the final return statement.
PipelineLoop(cs, agentSequence, k, results, currentInput, context) ==
    IF k > Len(agentSequence)
    THEN /\ calls' = cs
         /\ pc' = "done"
         /\ frame' = [agentSequence |-> agentSequence,
                      k             |-> k,
                      results       |-> results,
                      currentInput  |-> currentInput,
                      context       |-> context,
                      initialInput  |-> IF k = 1 THEN currentInput
                                        ELSE frame.initialInput,
                      wait          |-> 0]
         /\ ret' = IF results = <<>>
                   THEN Thrown("executePipeline", TypeError("output"))
                   ELSE Returned("executePipeline",
                            [success     |-> TRUE,
                             results     |-> results,
                             finalOutput |-> Get(results[Len(results)], "output"),
                             context     |-> context])
    ELSE LET p == executeAgent(agentSequence[k], currentInput, context)
         IN  /\ calls' = Append(cs, p)
             /\ frame' = [agentSequence |-> agentSequence,
                          k             |-> k,
                          results       |-> results,
                          currentInput  |-> currentInput,
                          context       |-> context,
                          initialInput  |-> IF k = 1 THEN currentInput
                                            ELSE frame.initialInput,
                          wait          |-> Len(cs) + 1]
             /\ IF p.state = "rejected"
                THEN /\ pc' = "done"
                     /\ ret' = Thrown("executePipeline", p.result)
                ELSE /\ pc' = "executePipeline"
                     /\ ret' = Undefined

\* (a pipeline that never looks at the step's success flag)
StepFailedIgnored(result) == FALSE

\* if (!result.success)
StepFailed(result) == ~result.success

\* (a failure report that names the first step instead of the failing one)
PipelineFailureFirstStep(result, results) ==
    [success  |-> FALSE,
     failedAt |-> results[1].agent,
     results  |-> results,
     error    |-> Get(result, "error")]

\* the value returned when a step reports failure
PipelineFailure(result, results) ==
    [success  |-> FALSE,
     failedAt |-> result.agent,
     results  |-> results,
     error    |-> Get(result, "error")]

\* the caller calls orchestrator.executePipeline(agentSequence, initialInput)
CallExecutePipeline ==
    /\ \E agentSequence \in KeyLists, initialInput \in CallerInputs :
          /\ CanStart(Len(agentSequence))
          /\ nCalls' = nCalls + Len(agentSequence)
          /\ PipelineLoop(Dangling, agentSequence, 1, <<>>, initialInput, EmptyObject)
    /\ nOps' = nOps + 1
    /\ UNCHANGED workflowHistory
    /\ UNCHANGED <<runnerVars, extractorVars>>

\* (a context keyed by the agent's display name)
NextContextByName(context, result) ==
    SetKey(context, result.agent, Get(result, "output"))

\* context[result.role] = result.output
NextContext(context, result) ==
    SetKey(context, result.role, Get(result, "output"))

\* the await of iteration k resumes with the step's result
ResumeExecutePipeline ==
    /\ pc = "executePipeline"
    /\ calls[frame.wait].state = "fulfilled"
    /\ LET result  == calls[frame.wait].result
           results == Append(frame.results, result)
       IN  IF StepFailed(result)
           THEN /\ pc' = "done"
                /\ ret' = Returned("executePipeline", PipelineFailure(result, results))
                /\ frame' = [frame EXCEPT !.results = results]
                /\ UNCHANGED calls
           ELSE PipelineLoop(calls, frame.agentSequence, frame.k + 1, results,
                             Get(result, "output"),
                             NextContext(frame.context, result))
    /\ UNCHANGED <<workflowHistory, nOps, nCalls>>
    /\ UNCHANGED <<runnerVars, extractorVars>>

----------------------------------------------------------------------------
(* AgentOrchestrator.executeParallel *)

\* the shared context a caller passes to executeParallel
CallerContexts == {[thesis |-> "t1"]}

\* (a dispatch that starts only the first agent before it waits)
MapExecuteAgentFirstOnly(agentKeys, input, context) ==
    [j \in 1..(IF agentKeys = <<>> THEN 0 ELSE 1) |->
        executeAgent(agentKeys[j], input, context)]

\* agentKeys.map(agentKey => this.executeAgent(agentKey, input, context)):
\* every call runs up to its await before map moves on to the next key
MapExecuteAgent(agentKeys, input, context) ==
    [j \in 1..Len(agentKeys) |-> executeAgent(agentKeys[j], input, context)]

\* results.reduce((acc, r) => { acc[r.role] = r.output; return acc }, {})
RECURSIVE ReduceOutputs(_, _)
ReduceOutputs(results, n) ==
    IF n = 0 THEN EmptyObject
    ELSE SetKey(ReduceOutputs(results, n - 1),
                results[n].role, Get(results[n], "output"))

\* (results.some instead of results.every)
SomeSuccess(results) == \E j \in 1..Len(results) : results[j].success

\* results.every(r => r.success)
EverySuccess(results) == \A j \in 1..Len(results) : results[j].success

\* the value executeParallel returns
ParallelResult(results) ==
    [success |-> EverySuccess(results),
     results |-> results,
     outputs |-> ReduceOutputs(results, Len(results))]

\* (a join that awaits the first promise only)
WaitedFirstOnly ==
    [j \in 1..(IF frame.count = 0 THEN 0 ELSE 1) |-> frame.first + j]

\* positions (in calls) of the promises handed to Promise.all
Waited == [j \in 1..frame.count |-> frame.first + j]

\* (a join that lists the results in the order in which the executions
\* completed)
AllResultsByCompletion(waited) ==
    LET range == {waited[j] : j \in DOMAIN waited}
    IN  [j \in DOMAIN waited |->
            calls[CHOOSE i \in range :
                     Cardinality({h \in range : calls[h].logAt < calls[i].logAt})
                         = j - 1].result]

\* what Promise.all(promises) resolves to: the values of the promises, in
\* the order of the promises
AllResults(waited) == [j \in DOMAIN waited |-> calls[waited[j]].result]

\* Promise.all rejects as soon as one of its promises is rejected
AnyRejected(promises) == \E j \in 1..Len(promises) : promises[j].state = "rejected"
FirstRejected(promises) ==
    promises[CHOOSE j \in 1..Len(promises) :
                /\ promises[j].state = "rejected"
                /\ \A h \in 1..(j - 1) : promises[h].state # "rejected"]

\* the caller calls orchestrator.executeParallel(agentKeys, input, context)
CallExecuteParallel ==
    /\ \E agentKeys \in KeyLists, input \in CallerInputs, context \in CallerContexts :
          LET promises == MapExecuteAgent(agentKeys, input, context)
          IN  /\ CanStart(Len(agentKeys))
              /\ nCalls' = nCalls + Len(agentKeys)
              /\ calls' = Dangling \o promises
              /\ frame' = [agentKeys |-> agentKeys, input |-> input,
                           context |-> context,
                           first |-> Len(Dangling), count |-> Len(promises),
                           logStart |-> Len(workflowHistory)]
              /\ IF AnyRejected(promises)
                 THEN /\ pc' = "done"
                      /\ ret' = Thrown("executeParallel", FirstRejected(promises).result)
                 ELSE /\ pc' = "executeParallel"
                      /\ ret' = Undefined
    /\ nOps' = nOps + 1
    /\ UNCHANGED workflowHistory
    /\ UNCHANGED <<runnerVars, extractorVars>>

\* await Promise.all(promises) resumes once every promise is fulfilled
JoinExecuteParallel ==
    /\ pc = "executeParallel"
    /\ \A j \in DOMAIN Waited : calls[Waited[j]].state = "fulfilled"
    /\ LET results == AllResults(Waited)
       IN  ret' = Returned("executeParallel", ParallelResult(results))
    /\ pc' = "done"
    /\ UNCHANGED <<workflowHistory, calls, frame, nOps, nCalls>>
    /\ UNCHANGED <<runnerVars, extractorVars>>

----------------------------------------------------------------------------
(* AgentOrchestrator.executeSourcingWorkflow *)

\* (an off-by-one threshold)
ScoreBelowThresholdOffByOne(output) == Has(output, "score") /\ output.score < 49

\* (a threshold that also rejects the score 50)
ScoreBelowThresholdInclusive(output) == Has(output, "score") /\ output.score <= 50

\* scoutResult.output.score < 50: a missing score is undefined, and
\* undefined < 50 is false
ScoreBelowThreshold(output) == Has(output, "score") /\ output.score < 50

\* (a check that looks for the approved field but not at its value)
NotApprovedFieldOnly(output) == ~Has(output, "approved")

\* !complianceResult.output.approved
NotApproved(output) == ~Has(output, "approved") \/ ~output.approved

\* complianceResult.output.violations.map((v) => v.details)
ViolationDetails(violations) ==
    [j \in 1..Len(violations) |-> violations[j].details]

\* (an enrichment step that is handed no context)
ProfilerContextEmpty(scoutResult) == EmptyObject

\* { scoutAnalysis: scoutResult.output }
ProfilerContext(scoutResult) == [scoutAnalysis |-> scoutResult.output]

\* the caller calls orchestrator.executeSourcingWorkflow(thesis, companyData):
\* step 1 issues the scout request
CallExecuteSourcingWorkflow ==
    /\ CanStart(4)
    /\ nCalls' = nCalls + 4
    /\ \E thesis \in Theses, companyData \in Companies :
          /\ calls' = Append(Dangling,
                 executeAgent("scout",
                     [thesis |-> thesis, companyData |-> companyData], EmptyObject))
          /\ frame' = [thesis |-> thesis, companyData |-> companyData,
                       scout |-> Len(Dangling) + 1]
    /\ pc' = "sourcing_scout"
    /\ ret' = Undefined
    /\ nOps' = nOps + 1
    /\ UNCHANGED workflowHistory
    /\ UNCHANGED <<runnerVars, extractorVars>>

\* the await of step 1 resumes: threshold check, then step 2 issues the
\* profiler request
SourcingAfterScout ==
    /\ pc = "sourcing_scout"
    /\ calls[frame.scout].state = "fulfilled"
    /\ LET scoutResult == calls[frame.scout].result
       IN  IF ~scoutResult.success \/ ScoreBelowThreshold(scoutResult.output)
           THEN /\ pc' = "done"
                /\ ret' = Returned("executeSourcingWorkflow",
                              [success     |-> TRUE,
                               qualified   |-> FALSE,
                               reason      |-> "Did not meet minimum score threshold",
                               scoutResult |-> scoutResult])
                /\ UNCHANGED <<calls, frame>>
           ELSE /\ calls' = Append(calls,
                       executeAgent("profiler", frame.companyData,
                           ProfilerContext(scoutResult)))
                /\ frame' = [thesis |-> frame.thesis,
                             companyData |-> frame.companyData,
                             scout |-> frame.scout,
                             profiler |-> Len(calls) + 1]
                /\ pc' = "sourcing_profiler"
                /\ UNCHANGED ret
    /\ UNCHANGED <<workflowHistory, nOps, nCalls>>
    /\ UNCHANGED <<runnerVars, extractorVars>>

\* the await of step 2 resumes: step 3 issues the valuation and the
\* compliance request, in this order, before awaiting Promise.all
SourcingAfterProfiler ==
    /\ pc = "sourcing_profiler"
    /\ calls[frame.profiler].state = "fulfilled"
    /\ LET scoutResult    == calls[frame.scout].result
           profilerResult == calls[frame.profiler].result
       IN  calls' = calls \o
              << executeAgent("valuation", frame.companyData,
                     [scoutAnalysis |-> scoutResult.output,
                      profile       |-> Get(profilerResult, "output")]),
                 executeAgent("compliance", frame.companyData,
                     [checkType |-> "licensure"]) >>
    /\ frame' = [thesis |-> frame.thesis,
                 companyData |-> frame.companyData,
                 scout |-> frame.scout,
                 profiler |-> frame.profiler,
                 valuation |-> Len(calls) + 1,
                 compliance |-> Len(calls) + 2]
    /\ pc' = "sourcing_join"
    /\ UNCHANGED <<workflowHistory, ret, nOps, nCalls>>
    /\ UNCHANGED <<runnerVars, extractorVars>>

\* (a workflow that does not qualify a company whose enrichment failed)
SourcingQualifiedNeedsProfile(scoutResult, profilerResult, valuationResult, complianceResult) ==
    Returned("executeSourcingWorkflow",
        [success   |-> TRUE,
         qualified |-> profilerResult.success,
         results   |-> [scout      |-> scoutResult,
                        profiler   |-> profilerResult,
                        valuation  |-> valuationResult,
                        compliance |-> complianceResult]])

\* the qualified result; building the summary reads fields of the outputs
SourcingQualified(scoutResult, profilerResult, valuationResult, complianceResult) ==
    IF ~Has(valuationResult, "output")
    THEN Thrown("executeSourcingWorkflow", TypeError("estimated_value_range"))
    ELSE IF ~Has(scoutResult.output, "risks")
    THEN Thrown("executeSourcingWorkflow", TypeError("risks"))
    ELSE IF ~Has(complianceResult.output, "violations")
    THEN Thrown("executeSourcingWorkflow", TypeError("map"))
    ELSE Returned("executeSourcingWorkflow",
             [success   |-> TRUE,
              qualified |-> TRUE,
              results   |-> [scout      |-> scoutResult,
                             profiler   |-> profilerResult,
                             valuation  |-> valuationResult,
                             compliance |-> complianceResult],
              summary   |-> [score          |-> Get(scoutResult.output, "score"),
                             estimatedValue |-> Get(valuationResult.output,
                                                    "estimated_value_range"),
                             topSignals     |-> Get(scoutResult.output, "top_signals"),
                             risks          |-> scoutResult.output.risks \o
                                 ViolationDetails(complianceResult.output.violations)]])

\* await Promise.all([...]) resumes: compliance check and final result
SourcingJoin ==
    /\ pc = "sourcing_join"
    /\ calls[frame.valuation].state = "fulfilled"
    /\ calls[frame.compliance].state = "fulfilled"
    /\ LET scoutResult      == calls[frame.scout].result
           profilerResult   == calls[frame.profiler].result
           valuationResult  == calls[frame.valuation].result
           complianceResult == calls[frame.compliance].result
       IN  ret' =
             IF ~Has(complianceResult, "output")
             THEN Thrown("executeSourcingWorkflow", TypeError("approved"))
             ELSE IF NotApproved(complianceResult.output)
             THEN Returned("executeSourcingWorkflow",
                      [success   |-> TRUE,
                       qualified |-> FALSE,
                       reason    |-> "Failed compliance checks",
                       results   |-> [scout      |-> scoutResult,
                                      profiler   |-> profilerResult,
                                      compliance |-> complianceResult]])
             ELSE SourcingQualified(scoutResult, profilerResult,
                                    valuationResult, complianceResult)
    /\ pc' = "done"
    /\ UNCHANGED <<workflowHistory, calls, frame, nOps, nCalls>>
    /\ UNCHANGED <<runnerVars, extractorVars>>

----------------------------------------------------------------------------
(* AgentOrchestrator.executeOutreachWorkflow *)

\* (a denial that hands back an empty violation list)
OutreachDeniedNoViolations(complianceResult) ==
    Returned("executeOutreachWorkflow",
        [success    |-> FALSE,
         reason     |-> "Outreach not approved by compliance",
         violations |-> <<>>])

\* the value returned when compliance does not approve
OutreachDenied(complianceResult) ==
    Returned("executeOutreachWorkflow",
        [success    |-> FALSE,
         reason     |-> "Outreach not approved by compliance",
         violations |-> Get(complianceResult.output, "violations")])

\* (a drafting context that drops what the caller passed)
OutreachContextFlagOnly(context) == [complianceApproved |-> TRUE]

\* { ...context, complianceApproved: true }
OutreachContext(context) == SetKey(context, "complianceApproved", TRUE)

\* the caller calls orchestrator.executeOutreachWorkflow(companyData, context):
\* step 1 issues the compliance request (executeAgent with two arguments,
\* its context parameter defaults to {})
CallExecuteOutreachWorkflow ==
    /\ CanStart(2)
    /\ nCalls' = nCalls + 2
    /\ \E companyData \in Companies, context \in CallerContexts :
          /\ calls' = Append(Dangling,
                 executeAgent("compliance",
                     [entity_id    |-> companyData.company_id,
                      check_type   |-> "outreach",
                      contact_info |-> Get(companyData, "contact")],
                     EmptyObject))
          /\ frame' = [companyData |-> companyData, context |-> context,
                       compliance |-> Len(Dangling) + 1]
    /\ pc' = "outreach_compliance"
    /\ ret' = Undefined
    /\ nOps' = nOps + 1
    /\ UNCHANGED workflowHistory
    /\ UNCHANGED <<runnerVars, extractorVars>>

\* the await of step 1 resumes: approval check, then step 2 issues the
\* outreach request
OutreachAfterCompliance ==
    /\ pc = "outreach_compliance"
    /\ calls[frame.compliance].state = "fulfilled"
    /\ LET complianceResult == calls[frame.compliance].result
       IN  IF ~Has(complianceResult, "output")
           THEN /\ pc' = "done"
                /\ ret' = Thrown("executeOutreachWorkflow", TypeError("approved"))
                /\ UNCHANGED <<calls, frame>>
           ELSE IF NotApproved(complianceResult.output)
           THEN /\ pc' = "done"
                /\ ret' = OutreachDenied(complianceResult)
                /\ UNCHANGED <<calls, frame>>
           ELSE /\ calls' = Append(calls,
                       executeAgent("outreach", frame.companyData,
                           OutreachContext(frame.context)))
                /\ frame' = [companyData |-> frame.companyData,
                             context |-> frame.context,
                             compliance |-> frame.compliance,
                             outreach |-> Len(calls) + 1]
                /\ pc' = "outreach_draft"
                /\ UNCHANGED ret
    /\ UNCHANGED <<workflowHistory, nOps, nCalls>>
    /\ UNCHANGED <<runnerVars, extractorVars>>

\* the await of step 2 resumes: the workflow returns both results
OutreachReturn ==
    /\ pc = "outreach_draft"
    /\ calls[frame.outreach].state = "fulfilled"
    /\ ret' = Returned("executeOutreachWorkflow",
                  [success         |-> TRUE,
                   complianceCheck |-> calls[frame.compliance].result,
                   outreachDraft   |-> calls[frame.outreach].result])
    /\ pc' = "done"
    /\ UNCHANGED <<workflowHistory, calls, frame, nOps, nCalls>>
    /\ UNCHANGED <<runnerVars, extractorVars>>

----------------------------------------------------------------------------
(* AgentOrchestrator.executeDiligenceWorkflow and                          *)
(* AgentOrchestrator.executeIntegrationWorkflow                            *)

\* the company records a caller passes to the diligence workflow, with and
\* without a vertical
DiligenceCompanies ==
    {[company_id |-> "c1"], [company_id |-> "c1", vertical |-> "hvac"]}

\* the documents argument: a list of uploaded documents, or none when the
\* caller leaves it out
DocumentArgs ==
    {[given |-> TRUE, list |-> l] :
        l \in UNION {[1..n -> {"doc1", "doc2"}] : n \in 0..MaxSeq}}
        \cup {[given |-> FALSE]}

\* the deal records a caller passes to the integration workflow
Deals == {[deal_id |-> "deal1"], [deal_id |-> "deal2", company_id |-> "c1"]}

\* (a workflow result whose success flag is the invocation's)
WorkflowResultPropagating(field, result) ==
    IF field = "diligenceReport"
    THEN [success |-> result.success, diligenceReport |-> result]
    ELSE [success |-> result.success, integrationPlan |-> result]

\* { success: true, diligenceReport: diligenceResult }, respectively
\* { success: true, integrationPlan: integrationResult }
WorkflowResult(field, result) ==
    IF field = "diligenceReport"
    THEN [success |-> TRUE, diligenceReport |-> result]
    ELSE [success |-> TRUE, integrationPlan |-> result]

\* the caller calls orchestrator.executeDiligenceWorkflow(companyData,
\* documents); documents defaults to [] and the context of executeAgent to {}
CallExecuteDiligenceWorkflow ==
    /\ CanStart(1)
    /\ nCalls' = nCalls + 1
    /\ \E companyData \in DiligenceCompanies, passed \in DocumentArgs :
          LET documents == IF passed.given THEN passed.list ELSE <<>>
          IN  /\ calls' = Append(Dangling,
                     executeAgent("diligence",
                         [company_id |-> companyData.company_id,
                          documents  |-> documents,
                          vertical   |-> Get(companyData, "vertical")],
                         EmptyObject))
              /\ frame' = [companyData |-> companyData, documents |-> documents,
                           wait |-> Len(Dangling) + 1]
    /\ pc' = "diligence"
    /\ ret' = Undefined
    /\ nOps' = nOps + 1
    /\ UNCHANGED workflowHistory
    /\ UNCHANGED <<runnerVars, extractorVars>>

\* the await resumes: the workflow returns the diligence result
DiligenceReturn ==
    /\ pc = "diligence"
    /\ calls[frame.wait].state = "fulfilled"
    /\ ret' = Returned("executeDiligenceWorkflow",
                  WorkflowResult("diligenceReport", calls[frame.wait].result))
    /\ pc' = "done"
    /\ UNCHANGED <<workflowHistory, calls, frame, nOps, nCalls>>
    /\ UNCHANGED <<runnerVars, extractorVars>>

\* the caller calls orchestrator.executeIntegrationWorkflow(dealData)
CallExecuteIntegrationWorkflow ==
    /\ CanStart(1)
    /\ nCalls' = nCalls + 1
    /\ \E dealData \in Deals :
          /\ calls' = Append(Dangling,
                 executeAgent("integrator", dealData, EmptyObject))
          /\ frame' = [dealData |-> dealData, wait |-> Len(Dangling) + 1]
    /\ pc' = "integration"
    /\ ret' = Undefined
    /\ nOps' = nOps + 1
    /\ UNCHANGED workflowHistory
    /\ UNCHANGED <<runnerVars, extractorVars>>

\* the await resumes: the workflow returns the integration result
IntegrationReturn ==
    /\ pc = "integration"
    /\ calls[frame.wait].state = "fulfilled"
    /\ ret' = Returned("executeIntegrationWorkflow",
                  WorkflowResult("integrationPlan", calls[frame.wait].result))
    /\ pc' = "done"
    /\ UNCHANGED <<workflowHistory, calls, frame, nOps, nCalls>>
    /\ UNCHANGED <<runnerVars, extractorVars>>

----------------------------------------------------------------------------
(* AgentOrchestrator.clearHistory *)

\* the caller, having received the outcome of its last call, calls
\* orchestrator.clearHistory(); executions still in flight are not affected
ClearHistory ==
    /\ pc = "done"
    /\ workflowHistory' = <<>>
    /\ pc' = "idle"
    /\ frame' = Undefined
    /\ ret' = Undefined
    /\ UNCHANGED <<calls, nOps, nCalls>>
    /\ UNCHANGED <<runnerVars, extractorVars>>

----------------------------------------------------------------------------
(* AgentOrchestrator.getHistory and AgentOrchestrator.getStats *)

\* the quotient n / d of a division of numbers, kept exact (the code
\* divides floating-point numbers, which rounds the quotient)
Ratio(n, d) == [num |-> n, den |-> d]

\* (a success counter that counts every item)
SuccessCountAll(history) == Len(history)

\* successCount after the forEach
SuccessCount(history) ==
    Cardinality({i \in 1..Len(history) : history[i].success})

RECURSIVE TotalTime(_)

\* totalTime after the forEach
TotalTime(history) ==
    IF history = <<>> THEN 0
    ELSE TotalTime(SubSeq(history, 1, Len(history) - 1))
             + history[Len(history)].executionTime

\* one round of the forEach on stats.byAgent
CountItem(byAgent, item) ==
    LET cur == IF Has(byAgent, item.agent) THEN byAgent[item.agent]
               ELSE [count |-> 0, successes |-> 0]
    IN  SetKey(byAgent, item.agent,
               [count     |-> cur.count + 1,
                successes |-> cur.successes + (IF item.success THEN 1 ELSE 0)])

RECURSIVE ByAgent(_)

\* stats.byAgent after the forEach
ByAgent(history) ==
    IF history = <<>> THEN EmptyObject
    ELSE CountItem(ByAgent(SubSeq(history, 1, Len(history) - 1)),
                   history[Len(history)])

\* the value getStats returns
getStats(history) ==
    [totalExecutions  |-> Len(history),
     byAgent          |-> ByAgent(history),
     successRate      |-> IF Len(history) > 0
                          THEN Ratio(SuccessCount(history) * 100, Len(history))
                          ELSE Ratio(0, 1),
     avgExecutionTime |-> IF Len(history) > 0
                          THEN Ratio(TotalTime(history), Len(history))
                          ELSE Ratio(0, 1)]

\* the caller, between two of its calls and with no execution in flight,
\* calls orchestrator.getStats(); frame keeps the log as it was read
GetStats ==
    /\ pc \in {"idle", "done"}
    /\ Dangling = <<>>
    /\ ret' = Returned("getStats", getStats(workflowHistory))
    /\ frame' = [read |-> workflowHistory]
    /\ pc' = "done"
    /\ UNCHANGED <<workflowHistory, calls, nOps, nCalls>>
    /\ UNCHANGED <<runnerVars, extractorVars>>

\* the caller, between two of its calls and with no execution in flight,
\* calls orchestrator.getHistory()
GetHistory ==
    /\ pc \in {"idle", "done"}
    /\ Dangling = <<>>
    /\ ret' = Returned("getHistory", workflowHistory)
    /\ frame' = [read |-> workflowHistory]
    /\ pc' = "done"
    /\ UNCHANGED <<workflowHistory, calls, nOps, nCalls>>
    /\ UNCHANGED <<runnerVars, extractorVars>>

----------------------------------------------------------------------------
(* BaseAgent.execute and BaseAgent.executeWithHistory, called directly on   *)
(* one runner                                                               *)

\* number of execute / executeWithHistory calls made on the runner
MaxRuns == 2

\* the runner under test
RunnerKey == "resolver"

\* a value JSON.stringify throws on (an object that contains itself)
Circular == [circular |-> TRUE]

\* the inputs, contexts and histories a caller passes to the runner
RunnerInputs == {[text |-> "x"], Circular}
RunnerContexts == {EmptyObject, [thesis |-> "t1"]}
RunnerHistories ==
    {<<>>, <<[role |-> "user", content |-> "q0"],
             [role |-> "assistant", content |-> "a0"]>>}

\* the history argument: an array of the caller's own, or the runner's
\* array, which every successful executeWithHistory hands out in its result
HistoryArgs ==
    {[live |-> FALSE, history |-> h] : h \in RunnerHistories}
        \cup {[live |-> TRUE]}

\* a thrown value (or a returned one) of a function that may throw
Threw(message) == [threw |-> TRUE, message |-> message]
Value(v) == [threw |-> FALSE, value |-> v]

\* JSON.stringify(value, null, 2)
stringify(value) ==
    IF value = Circular
    THEN Threw("Converting circular structure to JSON")
    ELSE Value([json |-> TRUE, value |-> value])

\* BaseAgent._buildUserMessage: the context section, if the context has
\* keys, then the task section
buildUserMessage(input, context) ==
    LET ctx  == stringify(context)
        task == stringify(input)
    IN  IF context # EmptyObject /\ ctx.threw THEN ctx
        ELSE IF task.threw THEN task
        ELSE Value((IF context # EmptyObject
                    THEN <<[section |-> "=== CONTEXT ===", body |-> ctx.value]>>
                    ELSE <<>>)
                   \o <<[section |-> "=== TASK ===", body |-> task.value]>>)

\* the replies of sendMessage / sendConversation to the runner: those of
\* sendMessage above, and a success whose content is undefined (the first
\* content block of the service's answer has no text)
RunnerReplies ==
    sendMessage(RunnerKey) \cup {[success |-> TRUE, content |-> Undefined]}

\* BaseAgent._parseResponse with the exception parseJSON lets through: for
\* a content that is no string JSON.parse throws, and content.match in the
\* catch block throws a TypeError that nothing in parseJSON catches
parseResponseOrThrow(content) ==
    IF content = Undefined
    THEN Threw("Cannot read properties of undefined (reading 'match')")
    ELSE Value(parseResponse(content))

\* (a runner without its catch block: the exception leaves the call)
runnerRethrow(error, executionTime) ==
    [state |-> "thrown", result |-> [message |-> error.message]]

\* the catch block of execute / executeWithHistory
runnerCatch(error, executionTime) ==
    [state  |-> "returned",
     result |-> [success  |-> FALSE,
                 agent    |-> agents[RunnerKey].name,
                 role     |-> agents[RunnerKey].role,
                 error    |-> error.message,
                 metadata |-> [executionTime |-> executionTime]]]

\* the call of execute / executeWithHistory up to its await: the message
\* is built and the request is sent, unless building the message throws
\* (history: the array the caller passes, as it is at the call; live: the
\* caller passes the runner's own array, this.conversationHistory, which it
\* holds from an earlier result; supplied: the caller's array as it is now)
RunnerCall(method, input, history, live, context) ==
    LET built == buildUserMessage(input, context)
        base  == [method |-> method, input |-> input, context |-> context,
                  history |-> history, live |-> live, supplied |-> history]
    IN  IF built.threw
        THEN \E t \in ExecTimes :
                LET end == runnerCatch(built, t)
                IN  runs' = Append(runs,
                        base @@ [userMessage |-> Undefined, sent |-> <<>>,
                                 reply |-> Undefined,
                                 state |-> end.state, result |-> end.result])
        ELSE runs' = Append(runs,
                base @@ [userMessage |-> built.value,
                         sent |-> <<history \o
                                    <<[role |-> "user", content |-> built.value]>> >>,
                         reply |-> Undefined,
                         state |-> "awaiting", result |-> Undefined])

\* agent.execute(input, context)
RunnerExecute ==
    /\ Len(runs) < MaxRuns
    /\ \E input \in RunnerInputs, context \in RunnerContexts :
          RunnerCall("execute", input, <<>>, FALSE, context)
    /\ UNCHANGED <<conversationHistory, orchestratorVars, extractorVars>>

\* agent.executeWithHistory(input, history, context)
RunnerExecuteWithHistory ==
    /\ Len(runs) < MaxRuns
    /\ \E input \in RunnerInputs, arg \in HistoryArgs, context \in RunnerContexts :
          RunnerCall("executeWithHistory", input,
                     IF arg.live THEN conversationHistory ELSE arg.history,
                     arg.live, context)
    /\ UNCHANGED <<conversationHistory, orchestratorVars, extractorVars>>

\* (a runner that retains the user turn ahead of what it holds and the
\* response behind it)
pushTurnsApart(history, userMessage, content) ==
    <<[role |-> "user", content |-> userMessage]>> \o history
        \o <<[role |-> "assistant", content |-> content]>>

\* (a push that retains the response alone)
pushTurnsAssistantOnly(history, userMessage, content) ==
    history \o <<[role |-> "assistant", content |-> content]>>

\* (a push that retains the response before the user turn)
pushTurnsSwapped(history, userMessage, content) ==
    history \o <<[role |-> "assistant", content |-> content],
                 [role |-> "user", content |-> userMessage]>>

\* this.conversationHistory.push({role: 'user', ...}, {role: 'assistant', ...})
pushTurns(history, userMessage, content) ==
    history \o <<[role |-> "user", content |-> userMessage],
                 [role |-> "assistant", content |-> content]>>

\* the arrays of the callers that passed the runner's own array are that
\* array: they hold what it holds
Supplied(rs, retained) ==
    [q \in 1..Len(rs) |->
        IF rs[q].live THEN [rs[q] EXCEPT !.supplied = retained] ELSE rs[q]]

\* this.conversationHistory = []: the callers keep the array they passed,
\* which is the runner's no more
Detached(rs) == [q \in 1..Len(rs) |-> [rs[q] EXCEPT !.live = FALSE]]

\* the client answers the request of run r and the runner resumes after its
\* await
RunnerResume(r) ==
    /\ r \in 1..Len(runs)
    /\ runs[r].state = "awaiting"
    /\ \E response \in RunnerReplies, t \in ExecTimes :
          LET output == IF response.success
                        THEN parseResponseOrThrow(response.content)
                        ELSE Threw(response.error)
          IN  IF output.threw
              THEN LET end == runnerCatch(output, t)
                   IN  /\ runs' = [runs EXCEPT ![r].state = end.state,
                                               ![r].reply = response,
                                               ![r].result = end.result]
                       /\ UNCHANGED conversationHistory
              ELSE IF runs[r].method = "execute"
              THEN /\ runs' = [runs EXCEPT ![r].state = "returned",
                                           ![r].reply = response,
                                           ![r].result =
                                               execute(RunnerKey, response, t)]
                   /\ UNCHANGED conversationHistory
              ELSE /\ conversationHistory' =
                          pushTurns(conversationHistory, runs[r].userMessage,
                                    response.content)
                   /\ runs' = Supplied([runs EXCEPT
                          ![r].state = "returned",
                          ![r].reply = response,
                          ![r].result = execute(RunnerKey, response, t) @@
                              [conversationHistory |-> conversationHistory']],
                          conversationHistory')
    /\ UNCHANGED <<orchestratorVars, extractorVars>>

\* agent.resetHistory()
RunnerResetHistory ==
    /\ \/ conversationHistory # <<>>
       \/ \E q \in 1..Len(runs) : runs[q].live
    /\ conversationHistory' = <<>>
    /\ runs' = Detached(runs)
    /\ UNCHANGED <<orchestratorVars, extractorVars>>

NextRunner ==
    \/ RunnerExecute
    \/ RunnerExecuteWithHistory
    \/ \E r \in 1..Len(runs) : RunnerResume(r)
    \/ RunnerResetHistory

----------------------------------------------------------------------------
(* BaseAgent._parseResponse applied to one response text *)

\* the runner hands the text to its extractor
Extract ==
    /\ extracted = Undefined
    /\ extracted' = parseResponseOrThrow([json |-> FALSE, text |-> text])
    /\ UNCHANGED <<text, orchestratorVars, runnerVars>>

InitExtractor ==
    /\ workflowHistory = <<>>
    /\ calls = <<>>
    /\ pc = "idle"
    /\ frame = Undefined
    /\ ret = Undefined
    /\ nOps = 0
    /\ nCalls = 0
    /\ conversationHistory = <<>>
    /\ runs = <<>>
    /\ \E n \in 0..MaxText : text \in [1..n -> Tokens]
    /\ extracted = Undefined

NextExtractor == Extract

----------------------------------------------------------------------------

Init ==
    /\ workflowHistory = <<>>
    /\ calls = <<>>
    /\ pc = "idle"
    /\ frame = Undefined
    /\ ret = Undefined
    /\ nOps = 0
    /\ nCalls = 0
    /\ conversationHistory = <<>>
    /\ runs = <<>>
    /\ text = <<>>
    /\ extracted = Undefined

Next ==
    \/ \E i \in 1..Len(calls) : AgentSettle(i)
    \/ CallExecuteAgent
    \/ ReturnExecuteAgent
    \/ CallExecutePipeline
    \/ ResumeExecutePipeline
    \/ CallExecuteParallel
    \/ JoinExecuteParallel
    \/ CallExecuteSourcingWorkflow
    \/ SourcingAfterScout
    \/ SourcingAfterProfiler
    \/ SourcingJoin
    \/ CallExecuteOutreachWorkflow
    \/ OutreachAfterCompliance
    \/ OutreachReturn
    \/ ClearHistory

Spec == Init /\ [][Next]_vars

\* the orchestrator with a caller that also reads the log and its statistics
NextLog ==
    \/ Next
    \/ GetStats
    \/ GetHistory

SpecLog == Init /\ [][NextLog]_vars

\* the orchestrator with a caller of the two single-step workflows
NextWorkflows ==
    \/ \E i \in 1..Len(calls) : AgentSettle(i)
    \/ CallExecuteDiligenceWorkflow
    \/ DiligenceReturn
    \/ CallExecuteIntegrationWorkflow
    \/ IntegrationReturn
    \/ ClearHistory

SpecWorkflows == Init /\ [][NextWorkflows]_vars

\* one runner, called directly
SpecRunner == Init /\ [][NextRunner]_vars

\* the extractor, applied to every text up to MaxText tokens
SpecExtractor == InitExtractor /\ [][NextExtractor]_vars

----------------------------------------------------------------------------
(* Properties *)

\* the executeAgent calls made by the caller's current (or last) orchestrator
\* call, in the order they were made
Mine == SelectSeq(calls, LAMBDA c : c.op = nOps)

\* the caller's current call is opName, running or just completed
InOp(opName) ==
    \/ pc = opName
    \/ pc = "done" /\ ret.op = opName

Finished(opName) == pc = "done" /\ ret.op = opName
HasReturned(opName) == Finished(opName) /\ ret.outcome = "returned"
HasThrown(opName) == Finished(opName) /\ ret.outcome = "thrown"

\* C1 (as claimed): executeAgent with an agent id that is no key of the agent
\* table completes by returning an error result (success = false with a
\* message); it never throws or rejects.
C1_UnknownAgentReturnsErrorResult ==
    (Finished("executeAgent") /\ calls[frame.wait].agentKey \notin DOMAIN agents)
        => /\ ret.outcome = "returned"
           /\ ret.value.success = FALSE
           /\ Has(ret.value, "error")

\* C2: once the step at position k of a pipeline has returned a failure, no
\* agent at a later position is ever invoked, every position up to k has
\* been invoked exactly once (the j-th call of the pipeline is the call for
\* position j), and the pipeline completes with success = false, that step's
\* error and the results of the steps 1..k.
C2_PipelineStopsAtFailure ==
    InOp("executePipeline") =>
        \A k \in 1..Len(Mine) :
            (Mine[k].state = "fulfilled" /\ ~Mine[k].result.success)
                => /\ Len(Mine) = k
                   /\ \A j \in 1..k : Mine[j].agentKey = frame.agentSequence[j]
                   /\ pc = "done" =>
                        /\ ret.outcome = "returned"
                        /\ ret.value.success = FALSE
                        /\ ret.value.error = Mine[k].result.error
                        /\ ret.value.results = [j \in 1..k |-> Mine[j].result]

\* a two-step pipeline came back after its first step failed, and its second
\* step names a known agent
C2_Witness ==
    /\ HasReturned("executePipeline")
    /\ Len(frame.agentSequence) = 2
    /\ frame.agentSequence[2] \in DOMAIN agents
    /\ Len(Mine) = 1
    /\ ~Mine[1].result.success

\* the position of the step a failed pipeline stopped at
FailedStep == Len(ret.value.results)

PipelineFailed == HasReturned("executePipeline") /\ ~ret.value.success

C4_PipelineStrictSequencing ==
    InOp("executePipeline") =>
        /\ \A j \in 1..Len(Mine) : Mine[j].agentKey = frame.agentSequence[j]
        /\ \A j \in 2..Len(Mine) :
              /\ Mine[j - 1].state = "fulfilled"
              /\ Mine[j - 1].result.success
        /\ Cardinality({j \in 1..Len(Mine) : Mine[j].state = "inflight"}) <= 1

\* the second step of a pipeline is in flight
C4_Witness ==
    /\ pc = "executePipeline"
    /\ Len(Mine) = 2
    /\ Mine[2].state = "inflight"

\* the agent keys of a parallel group are all known
AllKnown(agentKeys) == \A j \in 1..Len(agentKeys) : agentKeys[j] \in DOMAIN agents

\* branch j is the only branch of the group for its agent
ListedOnce(agentKeys, j) ==
    \A h \in 1..Len(agentKeys) : agentKeys[h] = agentKeys[j] => h = j

\* C5: the success flag of executeParallel's result is the conjunction of
\* the branches' success flags, and when one agent fails while another agent
\* (listed once, agentIds being a set) succeeds, the outputs map holds the
\* succeeding agent's output under that agent's role.
C5_ParallelConjunctionAndOutputs ==
    HasReturned("executeParallel") =>
        /\ ret.value.success = (\A j \in 1..Len(Mine) : Mine[j].result.success)
        /\ \A i, j \in 1..Len(Mine) :
              ( /\ ~Mine[i].result.success
                /\ Mine[j].result.success
                /\ ListedOnce(frame.agentKeys, j) )
              => /\ Has(ret.value.outputs, AGENT_CONFIGS[Mine[j].agentKey].role)
                 /\ ret.value.outputs[AGENT_CONFIGS[Mine[j].agentKey].role]
                       = Mine[j].result.output

\* a group of two returned after its first agent failed and its second
\* succeeded
C5_Witness ==
    /\ HasReturned("executeParallel")
    /\ Len(Mine) = 2
    /\ ~Mine[1].result.success
    /\ Mine[2].result.success
    /\ ret.value.success = FALSE

\* C6: executeParallel produces its aggregate result only when every
\* execution it dispatched has settled, a failed branch included; the result
\* lists one result per dispatched execution.
C6_ParallelWaitsForAll ==
    HasReturned("executeParallel") =>
        /\ \A j \in 1..Len(Mine) : Mine[j].state = "fulfilled"
        /\ Len(ret.value.results) = Len(Mine)
        /\ Len(Mine) = Len(frame.agentKeys)

\* a group of two returned, its first branch having failed before the second
\* branch settled
C6_Witness ==
    /\ HasReturned("executeParallel")
    /\ Len(Mine) = 2
    /\ ~Mine[1].result.success
    /\ Mine[1].logAt < Mine[2].logAt

\* C7: from its first await on, executeParallel has issued the requests of
\* all its agents, in list order and each with the caller's input and
\* context: there is no state in which a response of the group has been
\* processed while a request of the group is still to be issued.
C7_ParallelDispatchesAllFirst ==
    InOp("executeParallel") =>
        /\ Len(Mine) = Len(frame.agentKeys)
        /\ \A j \in 1..Len(Mine) :
              /\ Mine[j].agentKey = frame.agentKeys[j]
              /\ Mine[j].input = frame.input
              /\ Mine[j].context = frame.context
              /\ Mine[j].agentKey \in DOMAIN agents => Mine[j].state # "rejected"

\* the second request of a group of two has been answered while the first
\* is still in flight
C7_Witness ==
    /\ pc = "executeParallel"
    /\ Len(Mine) = 2
    /\ Mine[1].state = "inflight"
    /\ Mine[2].state = "fulfilled"

InSourcing ==
    \/ pc \in {"sourcing_scout", "sourcing_profiler", "sourcing_join"}
    \/ Finished("executeSourcingWorkflow")

\* C9: in the sourcing workflow, once the scoring execution has failed or
\* yielded a score below 50, the scoring call stays the workflow's only
\* agent call (enrichment, valuation and compliance are never invoked) and
\* the workflow returns success = true, qualified = false with the threshold
\* reason.
C9_SourcingThresholdShortCircuit ==
    ( /\ InSourcing
      /\ Mine[1].state = "fulfilled"
      /\ \/ ~Mine[1].result.success
         \/ (Has(Mine[1].result.output, "score") /\ Mine[1].result.output.score < 50) )
        => /\ Len(Mine) = 1
           /\ Mine[1].agentKey = "scout"
           /\ pc = "done" =>
                /\ ret.outcome = "returned"
                /\ ret.value.success = TRUE
                /\ ret.value.qualified = FALSE
                /\ ret.value.reason = "Did not meet minimum score threshold"
                /\ ret.value.scoutResult = Mine[1].result

\* the workflow returned after a successful scoring with score 49
C9_Witness ==
    /\ HasReturned("executeSourcingWorkflow")
    /\ Mine[1].result.success
    /\ Has(Mine[1].result.output, "score")
    /\ Mine[1].result.output.score = 49

\* the scoring succeeded with a score of at least 50 and the compliance
\* check came back denying approval
ComplianceDenied ==
    /\ Finished("executeSourcingWorkflow")
    /\ Len(Mine) = 4
    /\ Mine[1].result.success
    /\ Has(Mine[1].result.output, "score")
    /\ Mine[1].result.output.score >= 50
    /\ Mine[4].result.success
    /\ Has(Mine[4].result.output, "approved")
    /\ ~Mine[4].result.output.approved

\* C10: in the sourcing workflow, given a score >= 50 and a compliance check
\* that denies approval, the valuation agent has been invoked exactly once
\* and has run to completion, and the workflow returns success = true,
\* qualified = false with the compliance result and its violations.
C10_SourcingComplianceDenial ==
    ComplianceDenied =>
        /\ Cardinality({j \in 1..Len(Mine) : Mine[j].agentKey = "valuation"}) = 1
        /\ \A j \in 1..Len(Mine) :
              Mine[j].agentKey = "valuation" => Mine[j].state = "fulfilled"
        /\ Mine[4].agentKey = "compliance"
        /\ ret.outcome = "returned"
        /\ ret.value.success = TRUE
        /\ ret.value.qualified = FALSE
        /\ ret.value.reason = "Failed compliance checks"
        /\ ret.value.results.compliance = Mine[4].result
        /\ Has(ret.value.results.compliance.output, "violations")

\* a compliance denial with a violation, the valuation having succeeded
C10_Witness ==
    /\ ComplianceDenied
    /\ Mine[3].agentKey = "valuation"
    /\ Mine[3].result.success
    /\ Mine[4].result.output.violations # <<>>

\* the sourcing workflow has completed, every agent execution it made
\* succeeded, the scout returned a score of at least 50 and the compliance
\* check approved
SourcingAllGood ==
    /\ Finished("executeSourcingWorkflow")
    /\ \A j \in 1..Len(Mine) : Mine[j].result.success
    /\ Has(Mine[1].result.output, "score")
    /\ Mine[1].result.output.score >= 50
    /\ \A j \in 1..Len(Mine) :
          Mine[j].agentKey = "compliance"
              => /\ Has(Mine[j].result.output, "approved")
                 /\ Mine[j].result.output.approved

InOutreach ==
    \/ pc \in {"outreach_compliance", "outreach_draft"}
    \/ pc = "done" /\ ret.op = "executeOutreachWorkflow"

\* the compliance check of the outreach workflow succeeded and denies
\* approval
OutreachComplianceDenied ==
    /\ InOutreach
    /\ Len(Mine) >= 1
    /\ Mine[1].state = "fulfilled"
    /\ Mine[1].result.success
    /\ Has(Mine[1].result.output, "approved")
    /\ ~Mine[1].result.output.approved

\* C12: in the outreach workflow, when the compliance check denies approval
\* the outreach agent is never invoked and the workflow returns a failure
\* (success = false) that carries the violations of the compliance output.
C12_OutreachGatedOnCompliance ==
    OutreachComplianceDenied =>
        /\ Len(Mine) = 1
        /\ Mine[1].agentKey = "compliance"
        /\ \A j \in 1..Len(calls) :
              calls[j].agentKey = "outreach" => calls[j].op # nOps
        /\ pc = "done" =>
              /\ ret.outcome = "returned"
              /\ ret.value.success = FALSE
              /\ ret.value.violations = Mine[1].result.output.violations

\* the outreach workflow came back after a denial with a violation
C12_Witness ==
    /\ OutreachComplianceDenied
    /\ HasReturned("executeOutreachWorkflow")
    /\ Mine[1].result.output.violations # <<>>

\* C13 (as claimed): neither the sourcing nor the outreach workflow raises
\* an exception when an intermediate agent execution fails; each completes
\* by returning a result.
C13_WorkflowsNeverThrow ==
    (pc = "done" /\ ret.op \in {"executeSourcingWorkflow", "executeOutreachWorkflow"}
        /\ \E j \in 1..Len(Mine) : ~Mine[j].result.success)
        => ret.outcome = "returned"

\* C14 (as claimed): executePipeline and executeParallel complete by
\* returning a result value, never by throwing or rejecting, for every list
\* of agent ids (the empty list and lists with unknown ids included) and
\* every outcome of the individual executions.
C14_CompositionNeverThrows ==
    (pc = "done" /\ ret.op \in {"executePipeline", "executeParallel"})
        => ret.outcome = "returned"

\* C15: every result executeAgent returns for a known agent id carries
\* exactly one of output and error; it carries output exactly when its
\* success flag is true.
C15_ExactlyOneOfOutputAndError ==
    \A j \in 1..Len(calls) :
        calls[j].state = "fulfilled" =>
            /\ Has(calls[j].result, "output") # Has(calls[j].result, "error")
            /\ calls[j].result.success = Has(calls[j].result, "output")
            /\ HasReturned("executeAgent") /\ frame.wait = j
                  => ret.value = calls[j].result

\* executeAgent has returned a failure result that carries the error
C15_Witness ==
    /\ HasReturned("executeAgent")
    /\ ~ret.value.success
    /\ Has(ret.value, "error")

\* C17 (as claimed): when the compliance check of the outreach workflow
\* denies approval, the returned result has success = true and carries the
\* denial as a false qualified or approved flag, with a reason and the
\* violations.
C17_OutreachDenialIsSuccessfulOutcome ==
    (OutreachComplianceDenied /\ pc = "done") =>
        /\ ret.outcome = "returned"
        /\ ret.value.success = TRUE
        /\ \/ Has(ret.value, "qualified") /\ ~ret.value.qualified
           \/ Has(ret.value, "approved") /\ ~ret.value.approved
        /\ Has(ret.value, "reason")
        /\ Has(ret.value, "violations")

\* the calls whose execution completes in the step
Completing ==
    {i \in 1..Len(calls) :
        /\ i <= Len(calls')
        /\ calls[i].state = "inflight"
        /\ calls'[i].state = "fulfilled"}

\* C16: every executeAgent call on a known agent id appends, when its
\* execution completes with a success or with a failure, exactly one entry
\* to the log; the entry's agent is the requested id and its success flag is
\* the success flag of the returned result; no other step appends, and only
\* clearHistory removes entries (it empties the log). Hence the log holds k
\* entries after k calls have completed since the last clearHistory.
C16_OneHistoryEntryPerCall ==
    [][ IF Completing # {}
        THEN \E i \in Completing :
                /\ Completing = {i}
                /\ Len(workflowHistory') = Len(workflowHistory) + 1
                /\ SubSeq(workflowHistory', 1, Len(workflowHistory)) = workflowHistory
                /\ workflowHistory'[Len(workflowHistory')].agent = calls[i].agentKey
                /\ workflowHistory'[Len(workflowHistory')].success
                      = calls'[i].result.success
        ELSE \/ workflowHistory' = workflowHistory
             \/ pc = "done" /\ pc' = "idle" /\ workflowHistory' = <<>>
      ]_vars

\* after a clearHistory one more execution completed, with a failure: the
\* log holds its entry alone
C16_Witness ==
    /\ pc = "idle"
    /\ nOps > 0
    /\ Len(workflowHistory) = 1
    /\ ~workflowHistory[1].success
    /\ \E j \in 1..Len(calls) : calls[j].state = "fulfilled" /\ calls[j].logAt = 1

C18_RunnerNeverThrows ==
    \A r \in 1..Len(runs) :
        /\ runs[r].state \in {"awaiting", "returned"}
        /\ runs[r].state = "returned" =>
              /\ Has(runs[r].result, "success")
              /\ buildUserMessage(runs[r].input, runs[r].context).threw =>
                    /\ ~runs[r].result.success
                    /\ runs[r].result.error = "Converting circular structure to JSON"
              /\ (runs[r].reply # Undefined /\ ~runs[r].reply.success) =>
                    /\ ~runs[r].result.success
                    /\ runs[r].result.error = runs[r].reply.error
              /\ (runs[r].reply # Undefined /\ runs[r].reply.success
                    /\ runs[r].reply.content = Undefined) =>
                    /\ ~runs[r].result.success
                    /\ runs[r].result.error =
                         "Cannot read properties of undefined (reading 'match')"

\* one call ended on a message that could not be built, another on a
\* failure of the client
C18_Witness ==
    \E r1, r2 \in 1..Len(runs) :
        /\ runs[r1].state = "returned"
        /\ runs[r1].sent = <<>>
        /\ ~runs[r1].result.success
        /\ runs[r2].method = "executeWithHistory"
        /\ runs[r2].state = "returned"
        /\ runs[r2].reply # Undefined
        /\ ~runs[r2].reply.success
        /\ ~runs[r2].result.success

\* no part of the text is a JSON document
NoStructure(t) ==
    /\ \A i \in 1..Len(t) : ~IsJson(<<t[i]>>)
    /\ \A i \in 1..Len(t) : t[i] = "{" =>
          \A j \in (i + 1)..Len(t) : t[j] = "}" => ~IsJson(SubSeq(t, i, j))

\* C20: for a response text no part of which parses, the extractor returns
\* the fallback wrapper whose raw-text field (rawResponse) is exactly the
\* input text and whose parsed flag is false; it does not throw.
C20_FallbackWrapper ==
    (extracted # Undefined /\ NoStructure(text)) =>
        /\ ~extracted.threw
        /\ Has(extracted.value, "rawResponse")
        /\ extracted.value.rawResponse.text = text
        /\ Has(extracted.value, "parsed")
        /\ extracted.value.parsed = FALSE
        /\ DOMAIN extracted.value = {"rawResponse", "parsed"}

\* the extractor was applied to prose around an opening brace and a fenced
\* block of prose
C20_Witness ==
    /\ extracted # Undefined
    /\ text = <<"{", "w", "F", "w", "E">>
    /\ NoStructure(text)
    /\ extracted.value.rawResponse.text = text

\* C21: for every response text that is in its entirety the serialization
\* of a map, the extractor returns the parsed map and nothing else:
\* serializing what it returns gives the text back, so serializing a map and
\* extracting from the result yields the original map.
C21_RoundTrip ==
    (extracted # Undefined /\ IsObject(text)) =>
        /\ ~extracted.threw
        /\ Has(extracted.value, "members")
        /\ ~Has(extracted.value, "rawResponse")
        /\ SerializeObject(extracted.value) = text
        /\ extracted.value = ObjectValue(SerializeObject(extracted.value))

\* the extractor was applied to the serialization of a map that holds an
\* empty map and a plain member
C21_Witness ==
    /\ extracted # Undefined
    /\ text = <<"{", "{", "}", "m", "}">>
    /\ extracted.value = [members |-> <<[members |-> <<>>], [member |-> "m"]>>]

\* the text is prose, a json-tagged fenced block and prose again: fence is
\* the position of the opening fence, the first of the text, and close that
\* of the closing fence
Fenced(t, fence, close) ==
    /\ fence \in 1..Len(t)
    /\ close \in (fence + 1)..Len(t)
    /\ t[fence] = "F"
    /\ t[close] = "E"
    /\ \A i \in 1..(fence - 1) : t[i] # "F"

\* C22: for a text made of prose, a json-tagged fenced block whose interior
\* is a valid map, and prose again, the extractor returns the map of the
\* interior: the value that parsing the interior alone returns.
C22_FencedBlock ==
    extracted # Undefined =>
        \A fence \in Positions(text, {"F"}), close \in Positions(text, {"E"}) :
            (Fenced(text, fence, close)
                /\ IsObject(SubSeq(text, fence + 1, close - 1)))
                => /\ ~extracted.threw
                   /\ extracted.value =
                        JsonValue(SubSeq(text, fence + 1, close - 1))
                   /\ extracted.value =
                        parseResponse([json |-> FALSE,
                            text |-> SubSeq(text, fence + 1, close - 1)])

\* the extractor was applied to a fenced empty map with a word of prose
\* before it and one after it
C22_Witness ==
    /\ extracted # Undefined
    /\ text = <<"w", "F", "{", "}", "E", "w">>
    /\ extracted.value = [members |-> <<>>]

\* the text holds no json-tagged fenced block: no ```json with a fence
\* after it
NoFencedBlock(t) ==
    \A i, j \in 1..Len(t) : i < j => ~(t[i] = "F" /\ t[j] \in {"F", "E"})

\* the fallback wrapper of the text t
IsFallback(v, t) ==
    /\ Has(v, "rawResponse")
    /\ v.rawResponse.text = t
    /\ v.parsed = FALSE

\* C23: when the text does not parse as a whole and holds no tagged fenced
\* block, the extractor takes the span from the first "{" of the text to
\* the last "}" after it and returns the parse of that span if it parses;
\* if the span does not parse the result is the fallback wrapper.
C23_BraceSpan ==
    (extracted # Undefined /\ ~IsJson(text) /\ NoFencedBlock(text)) =>
        \A first, last \in 1..Len(text) :
            (/\ first < last
             /\ text[first] = "{"
             /\ text[last] = "}"
             /\ \A i \in 1..Len(text) :
                   /\ text[i] = "{" => first <= i
                   /\ text[i] = "}" => i <= last)
                => /\ ~extracted.threw
                   /\ IF IsJson(SubSeq(text, first, last))
                      THEN extracted.value = JsonValue(SubSeq(text, first, last))
                      ELSE IsFallback(extracted.value, text)

\* two maps with a word between them: the span from the first "{" to the
\* last "}" does not parse and the result is the fallback, although the
\* first matching pair of braces is a map
C23_Witness ==
    /\ extracted # Undefined
    /\ text = <<"{", "}", "w", "{", "}">>
    /\ IsFallback(extracted.value, text)

\* a nested map between two words: the span parses
C23_WitnessParsed ==
    /\ extracted # Undefined
    /\ text = <<"w", "{", "{", "}", "}", "w">>
    /\ extracted.value = [members |-> <<[members |-> <<>>]>>]

\* C30 (as claimed): the strategies are tried in order until the first
\* success: when the text holds a json-tagged fenced block whose interior
\* does not parse, the brace span is still tried, so a text whose brace
\* span parses yields that parse and not the fallback.
C30_BraceSpanAfterFailedFence ==
    (/\ extracted # Undefined
     /\ ~IsJson(text)
     /\ jsonMatch(text).matched
     /\ ~IsJson(jsonMatch(text).group)
     /\ objectMatch(text).matched
     /\ IsJson(objectMatch(text).group))
        => /\ ~extracted.threw
           /\ extracted.value = JsonValue(objectMatch(text).group)

\* the executeWithHistory calls that end in the step: those made in it whose
\* message could not be built, and the one that resumes from its await
Ending ==
    {r \in 1..Len(runs') :
        /\ runs'[r].method = "executeWithHistory"
        /\ runs'[r].state = "returned"
        /\ r > Len(runs) \/ runs[r].state = "awaiting"}

\* C24: a call of executeWithHistory that ends in a failure (its request
\* failed, or building the message or extracting the response raised)
\* leaves the runner's retained conversation history as it was before; one
\* that ends in a success appends exactly two entries, the user turn with
\* the message sent and then the assistant turn with the raw response text.
C24_HistoryOnlyOnSuccess ==
    [][ \A r \in Ending :
            IF runs'[r].result.success
            THEN conversationHistory' = conversationHistory \o
                    <<[role |-> "user", content |-> runs'[r].userMessage],
                      [role |-> "assistant", content |-> runs'[r].reply.content]>>
            ELSE conversationHistory' = conversationHistory
      ]_vars

\* a first call has retained its two turns, and a second one has failed on
\* its request and left them alone
C24_Witness ==
    /\ Len(runs) = 2
    /\ runs[1].method = "executeWithHistory"
    /\ runs[2].method = "executeWithHistory"
    /\ runs[1].state = "returned"
    /\ runs[1].result.success
    /\ runs[2].state = "returned"
    /\ runs[2].reply # Undefined
    /\ ~runs[2].result.success
    /\ Len(conversationHistory) = 2
    /\ conversationHistory[2].content = runs[1].reply.content

\* the history alternates user and assistant entries, a user entry first
Alternates(history) ==
    /\ Len(history) % 2 = 0
    /\ \A i \in 1..Len(history) :
          history[i].role = IF i % 2 = 1 THEN "user" ELSE "assistant"

\* C25: after any sequence of execute, executeWithHistory and resetHistory
\* calls on a runner, overlapping ones included, its retained conversation
\* history alternates user and assistant entries starting with a user
\* entry; and every step leaves it as it is, appends at its end or clears
\* it as a whole: no entry is reordered, altered or removed by itself.
C25_HistoryAlternatesAppendOnly ==
    /\ []Alternates(conversationHistory)
    /\ [][ \/ conversationHistory' = <<>>
           \/ /\ Len(conversationHistory') >= Len(conversationHistory)
              /\ SubSeq(conversationHistory', 1, Len(conversationHistory))
                    = conversationHistory
         ]_vars

\* two calls of executeWithHistory have succeeded and the history holds the
\* two turns of one of them only: resetHistory was called in between
C25_Witness ==
    /\ Len(runs) = 2
    /\ \A r \in 1..2 :
          /\ runs[r].method = "executeWithHistory"
          /\ runs[r].state = "returned"
          /\ runs[r].result.success
    /\ Len(conversationHistory) = 2
    /\ conversationHistory[1].role = "user"

RECURSIVE SumOf(_, _, _)

\* the sum of the field of the entries of byAgent under the given keys
SumOf(byAgent, keys, field) ==
    IF keys = {} THEN 0
    ELSE LET k == CHOOSE k \in keys : TRUE
         IN  byAgent[k][field] + SumOf(byAgent, keys \ {k}, field)

\* the number of the entries of the log that satisfy success
Successes(history) == Cardinality({i \in 1..Len(history) : history[i].success})

\* C26: getStats is a fold over the log: for the log of N entries it read
\* it returns totalExecutions = N, for every agent in the log the number of
\* its entries and of its successful entries (so the counts sum to N, the
\* success counts to the number of successes, and none exceeds its count),
\* and successRate * N = 100 * successes; and the call leaves the log as
\* it is.
C26_StatsFold ==
    /\ [](HasReturned("getStats") =>
            LET st == ret.value
                h  == frame.read
            IN  /\ st.totalExecutions = Len(h)
                /\ DOMAIN st.byAgent = {h[i].agent : i \in 1..Len(h)}
                /\ \A a \in DOMAIN st.byAgent :
                      /\ st.byAgent[a].count =
                           Cardinality({i \in 1..Len(h) : h[i].agent = a})
                      /\ st.byAgent[a].successes =
                           Cardinality({i \in 1..Len(h) :
                                           h[i].agent = a /\ h[i].success})
                      /\ st.byAgent[a].successes <= st.byAgent[a].count
                /\ SumOf(st.byAgent, DOMAIN st.byAgent, "count") = Len(h)
                /\ SumOf(st.byAgent, DOMAIN st.byAgent, "successes") = Successes(h)
                /\ Len(h) > 0 =>
                      st.successRate.num * Len(h)
                          = 100 * Successes(h) * st.successRate.den
                /\ Len(h) = 0 => st.successRate.num = 0)
    /\ [][ (Has(ret', "op") /\ ret'.op = "getStats" /\ calls' = calls) =>
              /\ workflowHistory' = workflowHistory
              /\ frame'.read = workflowHistory
         ]_vars

\* getStats has returned for a log of two entries of two agents, one a
\* success and one a failure
C26_Witness ==
    /\ HasReturned("getStats")
    /\ Len(frame.read) = 2
    /\ frame.read[1].agent # frame.read[2].agent
    /\ frame.read[1].success # frame.read[2].success
    /\ ret.value.totalExecutions = 2
    /\ ret.value.successRate = Ratio(100, 2)

\* the last of the steps before step j of the pipeline that ran the agent
\* with the given role
LastWithRole(j, role) ==
    CHOOSE h \in 1..(j - 1) :
        /\ Mine[h].result.role = role
        /\ \A g \in (h + 1)..(j - 1) : Mine[g].result.role # role

Clearing == pc = "done" /\ pc' = "idle"

\* a step of getHistory or getStats
Reading ==
    /\ Has(ret', "op")
    /\ ret'.op \in {"getHistory", "getStats"}
    /\ calls' = calls

\* C28: the workflow history is an append-only log: a step of clearHistory
\* leaves it empty, a step of getHistory or getStats leaves it as it was,
\* and every other step (of executeAgent, a pipeline, a parallel group or a
\* workflow) keeps every entry already in it at its position and at most
\* appends entries at the end.
C28_AppendOnlyLog ==
    [][ /\ Clearing => workflowHistory' = <<>>
        /\ Reading => workflowHistory' = workflowHistory
        /\ ~Clearing =>
              /\ Len(workflowHistory') >= Len(workflowHistory)
              /\ SubSeq(workflowHistory', 1, Len(workflowHistory)) = workflowHistory
      ]_vars

\* getHistory has returned a log of two entries appended one after the
\* other by two executions, which is still the log
C28_Witness ==
    /\ HasReturned("getHistory")
    /\ Len(workflowHistory) = 2
    /\ ret.value = workflowHistory
    /\ \E i, j \in 1..Len(calls) :
          /\ i < j
          /\ calls[i].logAt = 1
          /\ calls[j].logAt = 2

\* C29: an executeAgent call with an unknown agent id has reported its
\* error in the step that made it: it is never waiting for the service, it
\* has run no runner (it carries no runner result and has no log entry) and
\* it has issued no generation request; the operation it was made for has
\* ended in that same step with that error, so no operation is running with
\* such a call among its calls.
C29_UnknownAgentImmediate ==
    /\ \A j \in 1..Len(calls) :
          calls[j].agentKey \notin DOMAIN agents =>
              /\ calls[j].state = "rejected"
              /\ calls[j].result = NotFoundError(calls[j].agentKey)
              /\ calls[j].requests = 0
              /\ calls[j].logAt = 0
    /\ \A j \in 1..Len(Mine) :
          Mine[j].agentKey \notin DOMAIN agents =>
              /\ pc \in {"idle", "done"}
              /\ pc = "done" => ret.outcome = "thrown"

\* a pipeline whose second agent id is unknown has ended with the error:
\* the first step made its one request, the second made none
C29_Witness ==
    /\ HasThrown("executePipeline")
    /\ Len(Mine) = 2
    /\ Mine[1].requests = 1
    /\ Mine[2].agentKey \notin DOMAIN agents
    /\ Mine[2].requests = 0
    /\ ret.value = NotFoundError(Mine[2].agentKey)

\* C31 (as claimed): in the sourcing workflow the enrichment agent is invoked
\* only if the scoring result succeeded and its output carries a score of at
\* least 50; a successful scoring result whose output has no score field
\* goes no further than the scoring call.
C31_EnrichmentNeedsScore ==
    (InSourcing /\ Len(Mine) >= 2) =>
        /\ Mine[2].agentKey = "profiler"
        /\ Mine[1].result.success
        /\ Has(Mine[1].result.output, "score")
        /\ Mine[1].result.output.score >= 50

\* C32 (as claimed): whatever text the service returns, the output the
\* extractor yields is a map or the fallback wrapper with parsed = false,
\* never a bare number.
C32_OutputIsMapOrWrapper ==
    (extracted # Undefined /\ ~extracted.threw) =>
        \/ Has(extracted.value, "members")
        \/ IsFallback(extracted.value, text)

\* C33: in the sourcing workflow the enrichment agent is invoked only after
\* the scoring call has completed and with the scoring output as its
\* context; valuation and compliance are issued together, in one step taken
\* after the enrichment call has completed, so both are in flight before
\* either completes; and the workflow ends only after both have settled.
C33_SourcingOrdering ==
    /\ [](InSourcing =>
            /\ Len(Mine) \in {1, 2, 4}
            /\ Len(Mine) >= 2 =>
                  /\ Mine[1].state = "fulfilled"
                  /\ Mine[2].agentKey = "profiler"
                  /\ Mine[2].context = [scoutAnalysis |-> Mine[1].result.output]
            /\ Len(Mine) = 4 =>
                  /\ Mine[2].state = "fulfilled"
                  /\ Mine[3].agentKey = "valuation"
                  /\ Mine[4].agentKey = "compliance"
                  /\ Finished("executeSourcingWorkflow") =>
                        /\ Mine[3].state = "fulfilled"
                        /\ Mine[4].state = "fulfilled")
    /\ [][ (pc = "sourcing_profiler" /\ pc' # pc) =>
              /\ Len(Mine') = 4
              /\ Mine'[3].state = "inflight"
              /\ Mine'[4].state = "inflight"
         ]_vars

\* the compliance check has completed while the valuation, issued before
\* it, is still in flight and the workflow is waiting for both
C33_Witness ==
    /\ pc = "sourcing_join"
    /\ Len(Mine) = 4
    /\ Mine[2].context = [scoutAnalysis |-> Mine[1].result.output]
    /\ Mine[3].state = "inflight"
    /\ Mine[4].state = "fulfilled"

\* the compliance check of the outreach workflow succeeded and approves
OutreachComplianceApproved ==
    /\ InOutreach
    /\ Len(Mine) >= 1
    /\ Mine[1].state = "fulfilled"
    /\ Mine[1].result.success
    /\ Has(Mine[1].result.output, "approved")
    /\ Mine[1].result.output.approved

\* C34: in the outreach workflow the drafting agent is invoked at most once
\* and only after the compliance check has completed; once the workflow
\* has resumed after an approving compliance check, the drafting agent has
\* been invoked exactly once, with the company data as its input and with a
\* context that holds every entry of the caller's context and, in addition,
\* complianceApproved = true.
C34_OutreachDraftAfterApproval ==
    InOutreach =>
        /\ Len(Mine) \in {1, 2}
        /\ Len(Mine) = 2 => Mine[1].state = "fulfilled"
        /\ (OutreachComplianceApproved /\ pc # "outreach_compliance") =>
              /\ Len(Mine) = 2
              /\ Mine[2].agentKey = "outreach"
              /\ Mine[2].input = frame.companyData
              /\ DOMAIN Mine[2].context
                    = DOMAIN frame.context \cup {"complianceApproved"}
              /\ Mine[2].context.complianceApproved = TRUE
              /\ \A k \in DOMAIN frame.context \ {"complianceApproved"} :
                    Mine[2].context[k] = frame.context[k]

\* the drafting request is in flight after an approval, carrying the
\* caller's thesis and the approval flag
C34_Witness ==
    /\ OutreachComplianceApproved
    /\ pc = "outreach_draft"
    /\ Mine[2].state = "inflight"
    /\ Mine[2].context = [thesis |-> "t1", complianceApproved |-> TRUE]

\* C35 (as claimed): whenever the outreach workflow returns success = true,
\* its outreachDraft is a successful execution result that carries an
\* output.
C35_OutreachSuccessHasDraft ==
    (HasReturned("executeOutreachWorkflow") /\ ret.value.success) =>
        /\ ret.value.outreachDraft.success
        /\ Has(ret.value.outreachDraft, "output")

\* the caller's current call is one of the two single-step workflows
InSingleStep ==
    \/ pc \in {"diligence", "integration"}
    \/ Finished("executeDiligenceWorkflow")
    \/ Finished("executeIntegrationWorkflow")

\* C36: the diligence workflow and the integration workflow each make
\* exactly one agent invocation, of the diligence agent with the company
\* id, the documents and the vertical, respectively of the integration agent
\* with the deal data; each returns success = true with that invocation's
\* result embedded, whether the invocation succeeded or failed.
C36_SingleStepWorkflows ==
    InSingleStep =>
        /\ Len(Mine) = 1
        /\ (pc = "diligence" \/ Finished("executeDiligenceWorkflow")) =>
              /\ Mine[1].agentKey = "diligence"
              /\ Mine[1].input.company_id = frame.companyData.company_id
              /\ Mine[1].input.documents = frame.documents
              /\ Mine[1].input.vertical = Get(frame.companyData, "vertical")
        /\ (pc = "integration" \/ Finished("executeIntegrationWorkflow")) =>
              /\ Mine[1].agentKey = "integrator"
              /\ Mine[1].input = frame.dealData
        /\ pc = "done" =>
              /\ Mine[1].state = "fulfilled"
              /\ ret.outcome = "returned"
              /\ ret.value.success = TRUE
        /\ Finished("executeDiligenceWorkflow") =>
              ret.value.diligenceReport = Mine[1].result
        /\ Finished("executeIntegrationWorkflow") =>
              ret.value.integrationPlan = Mine[1].result

\* the diligence workflow returned success = true around a failed
\* invocation
C36_Witness ==
    /\ HasReturned("executeDiligenceWorkflow")
    /\ ret.value.success
    /\ ~ret.value.diligenceReport.success
    /\ Len(Mine) = 1

\* the integration workflow returned around a successful invocation
C36_WitnessIntegration ==
    /\ HasReturned("executeIntegrationWorkflow")
    /\ ret.value.integrationPlan.success
    /\ Mine[1].agentKey = "integrator"

\* run r is a call of executeWithHistory that succeeded
Succeeded(r) ==
    /\ runs[r].method = "executeWithHistory"
    /\ runs[r].state = "returned"
    /\ runs[r].result.success

\* C37: whatever the interleaving of overlapping executeWithHistory calls
\* and resetHistory calls on one runner, the retained history is a sequence
\* of adjacent pairs, each the user turn of one successful call directly
\* followed by the response of that same call.
C37_PairsStayAdjacent ==
    /\ Len(conversationHistory) % 2 = 0
    /\ \A k \in 1..(Len(conversationHistory) \div 2) :
          /\ conversationHistory[2 * k - 1].role = "user"
          /\ conversationHistory[2 * k].role = "assistant"
          /\ \E r \in 1..Len(runs) :
                /\ Succeeded(r)
                /\ conversationHistory[2 * k - 1].content = runs[r].userMessage
                /\ conversationHistory[2 * k].content = runs[r].reply.content

\* two calls with different messages overlapped and the second one was
\* answered first, with a different response: its pair precedes the pair of
\* the first call
C37_Witness ==
    /\ Len(runs) = 2
    /\ Succeeded(1)
    /\ Succeeded(2)
    /\ runs[1].userMessage # runs[2].userMessage
    /\ runs[1].reply.content # runs[2].reply.content
    /\ conversationHistory =
          <<[role |-> "user", content |-> runs[2].userMessage],
            [role |-> "assistant", content |-> runs[2].reply.content],
            [role |-> "user", content |-> runs[1].userMessage],
            [role |-> "assistant", content |-> runs[1].reply.content]>>

\* a resetHistory came between the answers of two overlapping calls: the
\* history holds the pair of the call answered last
C37_WitnessReset ==
    /\ Len(runs) = 2
    /\ Succeeded(1)
    /\ Succeeded(2)
    /\ runs[1].userMessage # runs[2].userMessage
    /\ conversationHistory =
          <<[role |-> "user", content |-> runs[1].userMessage],
            [role |-> "assistant", content |-> runs[1].reply.content]>>

\* C38 (as claimed): executeWithHistory sends exactly the history the caller
\* supplied followed by the new user turn, and the array the caller
\* supplied is afterwards what it was at the call.
C38_SuppliedHistoryUntouched ==
    \A r \in 1..Len(runs) :
        runs[r].method = "executeWithHistory" =>
            /\ runs[r].sent # <<>> =>
                  runs[r].sent[1] = runs[r].history \o
                      <<[role |-> "user", content |-> runs[r].userMessage]>>
            /\ runs[r].supplied = runs[r].history

\* the enrichment call of the sourcing workflow has failed
EnrichmentFailed ==
    /\ InSourcing
    /\ Len(Mine) >= 2
    /\ Mine[2].state = "fulfilled"
    /\ ~Mine[2].result.success

\* C39: in the sourcing workflow a failed enrichment execution does not
\* stop the workflow: once the workflow has resumed, valuation and
\* compliance have been invoked, the valuation without a profile in its
\* context; and when both succeed, compliance approves and the scoring
\* output lists its risks, the workflow returns qualified = true with the
\* failed enrichment result among its results.
C39_EnrichmentFailureIgnored ==
    (EnrichmentFailed /\ pc # "sourcing_profiler") =>
        /\ Len(Mine) = 4
        /\ Mine[3].agentKey = "valuation"
        /\ Mine[3].context.profile = Undefined
        /\ Mine[4].agentKey = "compliance"
        /\ ( /\ Finished("executeSourcingWorkflow")
             /\ Mine[3].result.success
             /\ Mine[4].result.success
             /\ Has(Mine[4].result.output, "approved")
             /\ Mine[4].result.output.approved
             /\ Has(Mine[1].result.output, "risks") )
              => /\ ret.outcome = "returned"
                 /\ ret.value.success = TRUE
                 /\ ret.value.qualified = TRUE
                 /\ ret.value.results.profiler = Mine[2].result

\* the workflow qualified a company although its enrichment failed
C39_Witness ==
    /\ EnrichmentFailed
    /\ HasReturned("executeSourcingWorkflow")
    /\ ret.value.qualified
    /\ ~ret.value.results.profiler.success

\* C40: the results list executeParallel returns has one entry per
\* requested agent id, the j-th being the result of the execution of the
\* j-th id of the argument, whatever the order in which the executions
\* completed; the history entry of each execution sits where its completion
\* put it, which for two executions is the earlier position for the one that
\* completed first.
C40_ParallelResultsInArgumentOrder ==
    HasReturned("executeParallel") =>
        /\ DOMAIN ret.value.results = DOMAIN frame.agentKeys
        /\ \A j \in DOMAIN frame.agentKeys :
              /\ Mine[j].agentKey = frame.agentKeys[j]
              /\ ret.value.results[j] = Mine[j].result
              /\ ret.value.results[j].agent = agents[frame.agentKeys[j]].name
              /\ workflowHistory[Mine[j].logAt].agent = frame.agentKeys[j]
        /\ \A i, j \in DOMAIN frame.agentKeys :
              i # j => Mine[i].logAt # Mine[j].logAt

\* two different agents ran in parallel and the second completed first:
\* the results are in argument order, the history entries in the opposite
\* order
C40_Witness ==
    /\ HasReturned("executeParallel")
    /\ Len(frame.agentKeys) = 2
    /\ frame.agentKeys[1] # frame.agentKeys[2]
    /\ Mine[2].logAt < Mine[1].logAt
    /\ ret.value.results[1].agent = agents[frame.agentKeys[1]].name
    /\ workflowHistory[Mine[2].logAt].agent = frame.agentKeys[2]
    /\ workflowHistory[Mine[1].logAt].agent = frame.agentKeys[1]

====
